---- MODULE Spec2Model ----
(***************************************************************************)
(* Model of the ledger engine of src/main.rs: transactions, Merkle root,   *)
(* block sealing (proof of work), the Blockchain engine and the three      *)
(* request handlers that share it behind one RwLock.                       *)
(*                                                                         *)
(* Strings are sequences of one-character strings.  SHA-256 and Ed25519    *)
(* are library code; they are modelled by small deterministic stand-ins    *)
(* that keep the shapes the program relies on: a digest is 32 bytes, its   *)
(* hex form is 64 characters, a public key is 32 bytes, a signature is 64  *)
(* bytes and verifies only under the key and message it was made for.      *)
(***************************************************************************)
EXTENDS Integers, Sequences, FiniteSets, TLC

(***************************************************************************)
(* Bounds of the model.                                                    *)
(***************************************************************************)
\* handler tasks that run concurrently
NumProcs == 2
\* add_transaction accepts at most this many transactions in a run (requests
\* it rejects are followed without limit)
MaxAccepted == 2
\* Utc::now().timestamp() is drawn from 0..MaxTime
MaxTime == 0
\* the sealing loop is followed up to this nonce
MaxNonce == 30
\* difficulties 0..MaxDifficulty are tried, and one above the hash length
MaxDifficulty == 1
\* calculate_merkle_root is applied to lists of up to MaxLeaves transactions
MaxLeaves == 3

(***************************************************************************)
(* Program constants.                                                      *)
(***************************************************************************)
\* [u8; 32]: the length of an Ed25519 public key
PublicKeyLength == 32
\* Signature::from_slice accepts exactly 64 bytes
SignatureLength == 64
\* a SHA-256 digest has 32 bytes (64 hex characters)
DigestLength == 32
\* the length of a block hash: two hex characters per digest byte
HashHexLen == 2 * DigestLength

\* the amount of the genesis transaction
GenesisAmount == 50

(***************************************************************************)
(* Strings.                                                                *)
(***************************************************************************)
Code ==
  [c \in {"0","1","2","3","4","5","6","7","8","9",
          "a","b","c","d","e","f","A","B","C","D","E","F",
          "S","y","s","t","m","r","o","x","g","z"} |->
     CASE c = "0" -> 48 [] c = "1" -> 49 [] c = "2" -> 50 [] c = "3" -> 51
       [] c = "4" -> 52 [] c = "5" -> 53 [] c = "6" -> 54 [] c = "7" -> 55
       [] c = "8" -> 56 [] c = "9" -> 57
       [] c = "a" -> 97 [] c = "b" -> 98 [] c = "c" -> 99 [] c = "d" -> 100
       [] c = "e" -> 101 [] c = "f" -> 102
       [] c = "A" -> 65 [] c = "B" -> 66 [] c = "C" -> 67 [] c = "D" -> 68
       [] c = "E" -> 69 [] c = "F" -> 70
       [] c = "S" -> 83 [] c = "y" -> 121 [] c = "s" -> 115 [] c = "t" -> 116
       [] c = "m" -> 109 [] c = "r" -> 114 [] c = "o" -> 111 [] c = "x" -> 120
       [] c = "g" -> 103 [] c = "z" -> 122]

HexDigits == <<"0","1","2","3","4","5","6","7","8","9","a","b","c","d","e","f">>

\* the value of one hex character, or -1 when it is none (hex::decode takes
\* both cases of a..f)
HexVal(c) ==
  IF Code[c] >= 48 /\ Code[c] <= 57 THEN Code[c] - 48
  ELSE IF Code[c] >= 97 /\ Code[c] <= 102 THEN Code[c] - 87
  ELSE IF Code[c] >= 65 /\ Code[c] <= 70 THEN Code[c] - 55
  ELSE -1

\* hex::encode and format!("{:x}") of a digest: two lowercase digits per byte
\* (the bytes are bound once, as a member of a one-element set, so that they
\* are not computed again for every digit)
HexEncode(bytes) ==
  LET Digits(b) ==
        [i \in 1..(2 * Len(b)) |->
           IF i % 2 = 1 THEN HexDigits[(b[(i + 1) \div 2] \div 16) + 1]
           ELSE HexDigits[(b[i \div 2] % 16) + 1]]
  IN CHOOSE hex \in {Digits(b) : b \in {bytes}} : TRUE

\* hex::decode succeeds on an even number of hex characters
HexDecodeOk(s) ==
  /\ Len(s) % 2 = 0
  /\ \A i \in 1..Len(s) : HexVal(s[i]) >= 0

HexDecode(s) ==
  [i \in 1..(Len(s) \div 2) |-> 16 * HexVal(s[2 * i - 1]) + HexVal(s[2 * i])]

\* Display of a non-negative integer (u32, u64, i64 >= 0, and an f64 holding
\* a whole number, which prints without a fraction: 50.0 prints "50")
RECURSIVE Display(_)
Display(n) ==
  IF n < 10 THEN <<HexDigits[n + 1]>>
  ELSE Display(n \div 10) \o <<HexDigits[(n % 10) + 1]>>

(***************************************************************************)
(* SHA-256 stand-in: a 15-bit polynomial sum over the bytes, spread over   *)
(* 32 bytes.  The first byte carries the low bits nibble-swapped, so the   *)
(* leading hex digits vary with the last characters hashed (the nonce).    *)
(***************************************************************************)
RollMod == 32768

\* no string hashed is longer than three hex digests
MaxData == 3 * HashHexLen

RECURSIVE RollPower(_)
RollPower(n) ==
  IF n = 0 THEN 1
  ELSE IF n % 2 = 0
       THEN LET half == RollPower(n \div 2) IN (half * half) % RollMod
       ELSE (33 * RollPower(n - 1)) % RollMod

\* 33^n modulo RollMod, for n up to the longest string hashed
RollPowTable == [n \in 1..MaxData |-> RollPower(n)]

RollPow(n) == IF n = 0 THEN 1 ELSE RollPowTable[n]

\* sum of Code[data[i]] * 33^(hi - i) for i in lo..hi, modulo RollMod
RECURSIVE Roll(_, _, _)
Roll(data, lo, hi) ==
  IF lo = hi THEN Code[data[lo]]
  ELSE LET mid == (lo + hi) \div 2
       IN (Roll(data, lo, mid) * RollPow(hi - mid) + Roll(data, mid + 1, hi))
            % RollMod

\* (the data and the sum are bound once each, as members of one-element sets)
Sha256(data) ==
  LET Sum(d) == IF d = <<>> THEN 5381
                ELSE (5381 * RollPow(Len(d)) + Roll(d, 1, Len(d))) % RollMod
      Digest(s) ==
        LET lo == s % 256
            hi == s \div 256
        IN [i \in 1..DigestLength |->
              IF i = 1 THEN (lo % 16) * 16 + (lo \div 16)
              ELSE IF i = 2 THEN hi
              ELSE (lo * i + hi * (i - 1)) % 256]
  IN CHOOSE digest \in {Digest(s) : s \in {Sum(d) : d \in {data}}} : TRUE

(***************************************************************************)
(* Ed25519 stand-in.  A signing key is a small number; its verifying key   *)
(* is 32 bytes; a signature is 64 bytes made from the key and the message. *)
(***************************************************************************)
SigningKeys == {1, 2}

VerifyingKeyBytes(sk) == [i \in 1..PublicKeyLength |-> (16 * sk + i) % 256]

\* VerifyingKey::from_bytes: the bytes must decompress to a curve point
IsVerifyingKey(bytes) ==
  /\ Len(bytes) = PublicKeyLength
  /\ bytes[2] = (bytes[1] + 1) % 256

\* signing_key.sign(&message)
SignBytes(sk, message) ==
  [i \in 1..SignatureLength |-> (message[((i - 1) % Len(message)) + 1] + sk * i) % 256]

\* verifying_key.verify(&message, &signature).is_ok()
Verify(key, message, sig) ==
  \E sk \in SigningKeys :
    /\ VerifyingKeyBytes(sk) = key
    /\ SignBytes(sk, message) = sig

(***************************************************************************)
(* Transaction.  signature: Option<String> is <<>> (None) or <<s>>.        *)
(***************************************************************************)
None == <<>>
Some(s) == <<s>>

System == <<"S","y","s","t","e","m">>
Creator == <<"C","r","e","a","t","o","r">>

Transaction(sender, receiver, amount, signature) ==
  [sender |-> sender, receiver |-> receiver, amount |-> amount,
   signature |-> signature]

\* variant: the fields are hashed with a separator between them
TxCalculateHashDelimited(tx) ==
  Sha256(tx.sender \o <<"z">> \o tx.receiver \o <<"z">> \o Display(tx.amount))

\* Transaction::calculate_hash
TxCalculateHash(tx) ==
  Sha256(tx.sender \o tx.receiver \o Display(tx.amount))

\* Transaction::sign
TxSign(tx, sk) ==
  [tx EXCEPT !.signature = Some(HexEncode(SignBytes(sk, TxCalculateHash(tx))))]

\* variant: the signature is looked at before the sender
IsValidSignatureFirst(tx) ==
  IF tx.signature = None THEN FALSE
  ELSE IF tx.sender = System THEN TRUE
  ELSE IF ~HexDecodeOk(tx.sender) THEN FALSE
  ELSE LET public_key_bytes == HexDecode(tx.sender)
       IN IF Len(public_key_bytes) # PublicKeyLength THEN FALSE
          ELSE IF ~IsVerifyingKey(public_key_bytes) THEN FALSE
          ELSE IF ~HexDecodeOk(tx.signature[1]) THEN FALSE
          ELSE LET sig_bytes == HexDecode(tx.signature[1])
               IN IF Len(sig_bytes) # SignatureLength THEN FALSE
                  ELSE Verify(public_key_bytes, TxCalculateHash(tx), sig_bytes)

\* variant: a well-formed key and signature pass without verification
IsValidUnverified(tx) ==
  IF tx.sender = System THEN TRUE
  ELSE IF tx.signature = None THEN FALSE
  ELSE IF ~HexDecodeOk(tx.sender) THEN FALSE
  ELSE LET public_key_bytes == HexDecode(tx.sender)
       IN IF Len(public_key_bytes) # PublicKeyLength THEN FALSE
          ELSE IF ~IsVerifyingKey(public_key_bytes) THEN FALSE
          ELSE IF ~HexDecodeOk(tx.signature[1]) THEN FALSE
          ELSE LET sig_bytes == HexDecode(tx.signature[1])
               IN Len(sig_bytes) = SignatureLength

\* Transaction::is_valid
IsValid(tx) ==
  IF tx.sender = System THEN TRUE
  ELSE IF tx.signature = None THEN FALSE
  ELSE IF ~HexDecodeOk(tx.sender) THEN FALSE
  ELSE LET public_key_bytes == HexDecode(tx.sender)
       IN IF Len(public_key_bytes) # PublicKeyLength THEN FALSE
          ELSE IF ~IsVerifyingKey(public_key_bytes) THEN FALSE
          ELSE IF ~HexDecodeOk(tx.signature[1]) THEN FALSE
          ELSE LET sig_bytes == HexDecode(tx.signature[1])
               IN IF Len(sig_bytes) # SignatureLength THEN FALSE
                  ELSE Verify(public_key_bytes, TxCalculateHash(tx), sig_bytes)

(***************************************************************************)
(* BlockHeader and Block.                                                  *)
(***************************************************************************)
\* BlockHeader::calculate_hash
HeaderCalculateHash(h) ==
  HexEncode(Sha256(Display(h.index) \o Display(h.timestamp) \o h.merkle_root
                   \o h.previous_hash \o Display(h.nonce)))

\* variant: an odd level is filled up with the sentinel "0"
MerkleLevelZeroPadded(hashes) ==
  LET even == IF Len(hashes) % 2 # 0
              THEN Append(hashes, <<"0">>) ELSE hashes
  IN [k \in 1..(Len(even) \div 2) |->
        HexEncode(Sha256(even[2 * k - 1] \o even[2 * k]))]

\* one pass of the while loop of calculate_merkle_root: duplicate the last
\* hash when the count is odd, then hash adjacent pairs
MerkleLevel(hashes) ==
  LET even == IF Len(hashes) % 2 # 0
              THEN Append(hashes, hashes[Len(hashes)]) ELSE hashes
  IN [k \in 1..(Len(even) \div 2) |->
        HexEncode(Sha256(even[2 * k - 1] \o even[2 * k]))]

\* variant: one pass is made before the count is tested
RECURSIVE MerkleReducePairFirst(_)
MerkleReducePairFirst(hashes) ==
  LET level == MerkleLevel(hashes)
  IN IF Len(level) > 1 THEN MerkleReducePairFirst(level) ELSE level[1]

RECURSIVE MerkleReduce(_)
MerkleReduce(hashes) ==
  IF Len(hashes) > 1 THEN MerkleReduce(MerkleLevel(hashes)) ELSE hashes[1]

\* Block::calculate_merkle_root
CalculateMerkleRoot(transactions) ==
  LET hashes == [i \in 1..Len(transactions) |->
                   HexEncode(TxCalculateHash(transactions[i]))]
  IN IF hashes = <<>> THEN <<"0">> ELSE MerkleReduce(hashes)

\* Block::new, with the wall clock reading `now`
BlockNew(index, transactions, previous_hash, now) ==
  LET header == [index |-> index, timestamp |-> now,
                 merkle_root |-> CalculateMerkleRoot(transactions),
                 previous_hash |-> previous_hash, nonce |-> 0]
  IN [header |-> header, hash |-> HeaderCalculateHash(header),
      transactions |-> transactions]

\* the loop condition of Block::mine reads &self.hash[..difficulty]: the slice
\* is in range when difficulty <= hash.len()
SliceInRange(block, d) == d <= Len(block.hash)

\* "0".repeat(difficulty)
Target(d) == [i \in 1..d |-> "0"]

\* variant: the exit test compares one character too few
MeetsTargetShort(block, d) == SubSeq(block.hash, 1, d - 1) = Target(d - 1)

\* variant: the exit test compares one character too many
MeetsTargetLong(block, d) == SubSeq(block.hash, 1, d + 1) = Target(d + 1)

\* &self.hash[..difficulty] == target, the exit test of the loop
MeetsTarget(block, d) == SubSeq(block.hash, 1, d) = Target(d)

\* variant: the loop steps over every other nonce
MineIterationSkipping(block) ==
  LET header == [block.header EXCEPT !.nonce = block.header.nonce + 2]
  IN [block EXCEPT !.header = header, !.hash = HeaderCalculateHash(header)]

\* the body of the while loop of Block::mine
MineIteration(block) ==
  LET header == [block.header EXCEPT !.nonce = block.header.nonce + 1]
  IN [block EXCEPT !.header = header, !.hash = HeaderCalculateHash(header)]

(***************************************************************************)
(* Inputs.                                                                 *)
(***************************************************************************)
Alice == HexEncode(VerifyingKeyBytes(1))
Bob == HexEncode(VerifyingKeyBytes(2))

TxA == TxSign(Transaction(Alice, Bob, 5, None), 1)
TxB == TxSign(Transaction(Bob, Alice, 7, None), 2)
\* TxA's signature on another amount
TxForged == [TxA EXCEPT !.amount = 6]
\* a caller's transaction that names the sentinel sender
TxSystem == Transaction(System, Bob, 9, None)

TxInputs == {TxA, TxB, TxForged, TxSystem}

\* the inputs add_transaction accepts
ValidInputs == {tx \in TxInputs : IsValid(tx)}

\* the transaction Blockchain::new puts in the genesis block
GenesisTx == Transaction(System, Creator, GenesisAmount, None)

Difficulties == (0..MaxDifficulty) \cup {HashHexLen + 1}

Times == 0..MaxTime

(***************************************************************************)
(* State.                                                                  *)
(***************************************************************************)
Procs == 1..NumProcs
\* thread 0 is main, which constructs the engine
Main == 0

NoBlock ==
  [header |-> [index |-> 0, timestamp |-> 0, merkle_root |-> <<>>,
               previous_hash |-> <<>>, nonce |-> 0],
   hash |-> <<>>, transactions |-> <<>>]
NoTx == Transaction(<<>>, <<>>, 0, None)
NoSnapshot == [difficulty |-> 0, chain |-> <<>>, pending_transactions |-> <<>>]

VARIABLES
  main_pc,               \* where main is: "new", "seal", "serving", "panicked"
                         \* ("mined" when Block::mine is run on its own)
  difficulty,            \* the argument of Blockchain::new, then Blockchain::difficulty
  chain,                 \* Blockchain::chain
  pending_transactions,  \* Blockchain::pending_transactions
  new_block,             \* per thread: the block it is sealing (genesis_block / new_block)
  writers,               \* handlers holding the RwLock's write guard
  readers,               \* handlers holding a read guard
  pc,                    \* per handler: its position
  tx_arg,                \* per handler: the transaction of its request
  old,                   \* per handler: the engine as it was when its call began
  accepted,              \* history: the transactions add_transaction returned Ok for
  arg,                   \* the argument of a function applied on its own
  result                 \* its result, <<>> until it is computed

vars == <<main_pc, difficulty, chain, pending_transactions, new_block,
          writers, readers, pc, tx_arg, old, accepted, arg, result>>

engine == <<difficulty, chain, pending_transactions>>

applied == <<arg, result>>

\* everything but the difficulty, before Blockchain::new runs
Blank ==
  /\ main_pc = "new"
  /\ chain = <<>>
  /\ pending_transactions = <<>>
  /\ new_block = [t \in {Main} \cup Procs |-> NoBlock]
  /\ writers = {}
  /\ readers = {}
  /\ pc = [p \in Procs |-> "idle"]
  /\ tx_arg = [p \in Procs |-> NoTx]
  /\ old = [p \in Procs |-> NoSnapshot]
  /\ accepted = <<>>

Init ==
  /\ Blank
  /\ difficulty \in Difficulties
  /\ arg = <<>>
  /\ result = <<>>

Snapshot ==
  [difficulty |-> difficulty, chain |-> chain,
   pending_transactions |-> pending_transactions]

(***************************************************************************)
(* main: Blockchain::new(difficulty), then the server.                     *)
(***************************************************************************)
\* Blockchain::new up to the call of genesis_block.mine
New(now) ==
  /\ main_pc = "new"
  /\ new_block' = [new_block EXCEPT
                     ![Main] = BlockNew(0, <<GenesisTx>>, <<"0">>, now)]
  /\ main_pc' = "seal"
  /\ UNCHANGED <<applied, engine, writers, readers, pc, tx_arg, old, accepted>>

\* genesis_block.mine: the slice of the loop condition is out of range
GenesisMinePanic ==
  /\ main_pc = "seal"
  /\ ~SliceInRange(new_block[Main], difficulty)
  /\ main_pc' = "panicked"
  /\ UNCHANGED <<applied, engine, new_block, writers, readers, pc, tx_arg, old, accepted>>

\* genesis_block.mine: one iteration of the loop
GenesisMineStep ==
  /\ main_pc = "seal"
  /\ SliceInRange(new_block[Main], difficulty)
  /\ ~MeetsTarget(new_block[Main], difficulty)
  /\ new_block[Main].header.nonce < MaxNonce
  /\ new_block' = [new_block EXCEPT ![Main] = MineIteration(@)]
  /\ UNCHANGED <<applied, main_pc, engine, writers, readers, pc, tx_arg, old, accepted>>

\* the loop ends; Blockchain::new builds the engine and main serves it
NewDone ==
  /\ main_pc = "seal"
  /\ SliceInRange(new_block[Main], difficulty)
  /\ MeetsTarget(new_block[Main], difficulty)
  /\ chain' = <<new_block[Main]>>
  /\ pending_transactions' = <<>>
  /\ new_block' = [new_block EXCEPT ![Main] = NoBlock]
  /\ main_pc' = "serving"
  /\ UNCHANGED <<applied, difficulty, writers, readers, pc, tx_arg, old, accepted>>

(***************************************************************************)
(* The RwLock of AppState.                                                 *)
(***************************************************************************)
\* variant: a read guard is given while a writer holds the lock
CanReadAlways == TRUE

\* state.blockchain.read() returns when no writer holds the lock
CanRead == writers = {}
\* variant: a write guard is given while another writer holds the lock
CanWriteAmongWriters == readers = {}

\* state.blockchain.write() returns when nobody holds the lock
CanWrite == writers = {} /\ readers = {}

(***************************************************************************)
(* get_blocks                                                              *)
(***************************************************************************)
GetBlocksLock(p) ==
  /\ main_pc = "serving"
  /\ pc[p] = "idle"
  /\ CanRead
  /\ readers' = readers \cup {p}
  /\ pc' = [pc EXCEPT ![p] = "blocks"]
  /\ UNCHANGED <<applied, main_pc, engine, new_block, writers, tx_arg, old, accepted>>

\* Json(bc.chain.clone()), and the guard is dropped
GetBlocksReturn(p) ==
  /\ pc[p] = "blocks"
  /\ readers' = readers \ {p}
  /\ pc' = [pc EXCEPT ![p] = "idle"]
  /\ UNCHANGED <<applied, main_pc, engine, new_block, writers, tx_arg, old, accepted>>

(***************************************************************************)
(* add_transaction                                                         *)
(***************************************************************************)
AddLock(p, tx) ==
  /\ main_pc = "serving"
  /\ pc[p] = "idle"
  /\ Len(accepted) < MaxAccepted \/ tx \in TxInputs \ ValidInputs
  /\ CanWrite
  /\ writers' = writers \cup {p}
  /\ pc' = [pc EXCEPT ![p] = "add"]
  /\ tx_arg' = [tx_arg EXCEPT ![p] = tx]
  /\ old' = [old EXCEPT ![p] = Snapshot]
  /\ UNCHANGED <<applied, main_pc, engine, new_block, readers, accepted>>

\* variant: the transaction is pushed before it is validated
AddTransactionPushFirst(p) ==
  /\ pc[p] = "add"
  /\ pending_transactions' = Append(pending_transactions, tx_arg[p])
  /\ IF ~IsValid(tx_arg[p])
     THEN /\ pc' = [pc EXCEPT ![p] = "add_err"]
          /\ UNCHANGED accepted
     ELSE /\ accepted' = Append(accepted, tx_arg[p])
          /\ pc' = [pc EXCEPT ![p] = "add_ok"]
  /\ UNCHANGED <<applied, main_pc, difficulty, chain, new_block, writers,
                 readers, tx_arg, old>>

\* variant: the transaction is put at the head of the mempool
AddTransactionPushFront(p) ==
  /\ pc[p] = "add"
  /\ IF ~IsValid(tx_arg[p])
     THEN /\ pc' = [pc EXCEPT ![p] = "add_err"]
          /\ UNCHANGED <<pending_transactions, accepted>>
     ELSE /\ pending_transactions' = <<tx_arg[p]>> \o pending_transactions
          /\ accepted' = Append(accepted, tx_arg[p])
          /\ pc' = [pc EXCEPT ![p] = "add_ok"]
  /\ UNCHANGED <<applied, main_pc, difficulty, chain, new_block, writers, readers,
                 tx_arg, old>>

\* Blockchain::add_transaction; the handler then holds Ok or Err
AddTransaction(p) ==
  /\ pc[p] = "add"
  /\ IF ~IsValid(tx_arg[p])
     THEN /\ pc' = [pc EXCEPT ![p] = "add_err"]
          /\ UNCHANGED <<pending_transactions, accepted>>
     ELSE /\ pending_transactions' = Append(pending_transactions, tx_arg[p])
          /\ accepted' = Append(accepted, tx_arg[p])
          /\ pc' = [pc EXCEPT ![p] = "add_ok"]
  /\ UNCHANGED <<applied, main_pc, difficulty, chain, new_block, writers, readers,
                 tx_arg, old>>

(***************************************************************************)
(* mine_block                                                              *)
(***************************************************************************)
MineLock(p) ==
  /\ main_pc = "serving"
  /\ pc[p] = "idle"
  /\ CanWrite
  /\ writers' = writers \cup {p}
  /\ pc' = [pc EXCEPT ![p] = "mine"]
  /\ old' = [old EXCEPT ![p] = Snapshot]
  /\ UNCHANGED <<applied, main_pc, engine, new_block, readers, tx_arg, accepted>>

\* variant: the empty-mempool test never holds
IsEmptyMempoolNever == FALSE

\* self.pending_transactions.is_empty()
IsEmptyMempool == pending_transactions = <<>>

\* mine_pending_transactions with an empty mempool returns Err
MineEmpty(p) ==
  /\ pc[p] = "mine"
  /\ IsEmptyMempool
  /\ pc' = [pc EXCEPT ![p] = "mine_err"]
  /\ UNCHANGED <<applied, main_pc, engine, new_block, writers, readers, tx_arg, old,
                 accepted>>

\* self.chain.len() as u32 truncates from 2^32 on; a chain of a few blocks
\* stays far below it (and below the 2^31 - 1 where TLC's integers end)
AsU32(n) == n

\* variant: the hash of the first block is taken
PreviousHashOfFirst == chain[1].hash

\* self.chain.last().unwrap().hash.clone()
PreviousHash == chain[Len(chain)].hash

\* self.chain.len() as u32
NextIndex == AsU32(Len(chain))

\* variant: the mempool is copied back to front
PendingCloneReversed ==
  [i \in 1..Len(pending_transactions) |->
     pending_transactions[Len(pending_transactions) + 1 - i]]

\* variant: the block is given no transactions
PendingCloneNone == <<>>

\* self.pending_transactions.clone()
PendingClone == pending_transactions

\* mine_pending_transactions up to the call of new_block.mine
MineNewBlock(p, now) ==
  /\ pc[p] = "mine"
  /\ ~IsEmptyMempool
  /\ new_block' = [new_block EXCEPT
                     ![p] = BlockNew(NextIndex, PendingClone,
                                     PreviousHash, now)]
  /\ pc' = [pc EXCEPT ![p] = "seal"]
  /\ UNCHANGED <<applied, main_pc, engine, writers, readers, tx_arg, old, accepted>>

\* new_block.mine: one iteration of the loop
MineStep(p) ==
  /\ pc[p] = "seal"
  /\ SliceInRange(new_block[p], difficulty)
  /\ ~MeetsTarget(new_block[p], difficulty)
  /\ new_block[p].header.nonce < MaxNonce
  /\ new_block' = [new_block EXCEPT ![p] = MineIteration(@)]
  /\ UNCHANGED <<applied, main_pc, engine, writers, readers, pc, tx_arg, old, accepted>>

\* variant: the new block takes the place of the last one
MinePushOverLast(p) ==
  /\ pc[p] = "seal"
  /\ SliceInRange(new_block[p], difficulty)
  /\ MeetsTarget(new_block[p], difficulty)
  /\ chain' = [chain EXCEPT ![Len(chain)] = new_block[p]]
  /\ new_block' = [new_block EXCEPT ![p] = NoBlock]
  /\ pc' = [pc EXCEPT ![p] = "clear"]
  /\ UNCHANGED <<applied, main_pc, difficulty, pending_transactions, writers, readers,
                 tx_arg, old, accepted>>

\* the loop ends; self.chain.push(new_block)
MinePush(p) ==
  /\ pc[p] = "seal"
  /\ SliceInRange(new_block[p], difficulty)
  /\ MeetsTarget(new_block[p], difficulty)
  /\ chain' = Append(chain, new_block[p])
  /\ new_block' = [new_block EXCEPT ![p] = NoBlock]
  /\ pc' = [pc EXCEPT ![p] = "clear"]
  /\ UNCHANGED <<applied, main_pc, difficulty, pending_transactions, writers, readers,
                 tx_arg, old, accepted>>

\* variant: the first transaction stays in the mempool
MineClearAllButFirst(p) ==
  /\ pc[p] = "clear"
  /\ pending_transactions' = SubSeq(pending_transactions, 1, 1)
  /\ pc' = [pc EXCEPT ![p] = "mine_ok"]
  /\ UNCHANGED <<applied, main_pc, difficulty, chain, new_block, writers, readers,
                 tx_arg, old, accepted>>

\* self.pending_transactions.clear(), and Ok(()) is returned
MineClear(p) ==
  /\ pc[p] = "clear"
  /\ pending_transactions' = <<>>
  /\ pc' = [pc EXCEPT ![p] = "mine_ok"]
  /\ UNCHANGED <<applied, main_pc, difficulty, chain, new_block, writers, readers,
                 tx_arg, old, accepted>>

(***************************************************************************)
(* The handler maps the result to its response and returns: the write      *)
(* guard is dropped.                                                       *)
(***************************************************************************)
Returned == {"add_ok", "add_err", "mine_ok", "mine_err"}

Respond(p) ==
  /\ pc[p] \in Returned
  /\ writers' = writers \ {p}
  /\ pc' = [pc EXCEPT ![p] = "idle"]
  /\ tx_arg' = [tx_arg EXCEPT ![p] = NoTx]
  /\ old' = [old EXCEPT ![p] = NoSnapshot]
  /\ UNCHANGED <<applied, main_pc, engine, new_block, readers, accepted>>

Next ==
  \/ \E now \in Times : New(now)
  \/ GenesisMinePanic
  \/ GenesisMineStep
  \/ NewDone
  \/ \E p \in Procs : GetBlocksLock(p)
  \/ \E p \in Procs : GetBlocksReturn(p)
  \/ \E p \in Procs, tx \in TxInputs : AddLock(p, tx)
  \/ \E p \in Procs : AddTransaction(p)
  \/ \E p \in Procs : MineLock(p)
  \/ \E p \in Procs : MineEmpty(p)
  \/ \E p \in Procs, now \in Times : MineNewBlock(p, now)
  \/ \E p \in Procs : MineStep(p)
  \/ \E p \in Procs : MinePush(p)
  \/ \E p \in Procs : MineClear(p)
  \/ \E p \in Procs : Respond(p)

Spec == Init /\ [][Next]_vars

(***************************************************************************)
(* Block::calculate_merkle_root applied on its own to a list of            *)
(* transactions of up to MaxLeaves entries.                                *)
(***************************************************************************)
RECURSIVE TxLists(_)
TxLists(n) ==
  IF n = 0 THEN {<<>>}
  ELSE TxLists(n - 1)
       \cup {Append(l, tx) : l \in {m \in TxLists(n - 1) : Len(m) = n - 1},
                             tx \in TxInputs}

InitMerkle ==
  /\ Blank
  /\ difficulty = 0
  /\ arg \in TxLists(MaxLeaves)
  /\ result = <<>>

MerkleRoot ==
  /\ result = <<>>
  /\ result' = CalculateMerkleRoot(arg)
  /\ UNCHANGED <<main_pc, engine, new_block, writers, readers, pc, tx_arg, old,
                 accepted, arg>>

SpecMerkle == InitMerkle /\ [][MerkleRoot]_vars

(***************************************************************************)
(* Transaction::is_valid applied on its own to a transaction whose fields  *)
(* a request body can carry: well-formed and malformed senders and         *)
(* signatures.                                                             *)
(***************************************************************************)
\* not hex
NotHex == <<"z","z">>
\* hex digits, but an odd number of them
OddHex == <<"a","b","c">>
\* hex of a single byte
OneByteHex == <<"a","b">>
\* hex of 32 bytes that are no public key
NotAKey == HexEncode([i \in 1..PublicKeyLength |-> 0])

Senders == {System, Alice, Bob, NotHex, OddHex, OneByteHex, NotAKey}
Receivers == {Bob, Creator}
Amounts == {TxA.amount, TxForged.amount, GenesisAmount}
Signatures ==
  {None, TxA.signature, TxB.signature, Some(NotHex), Some(OddHex),
   Some(OneByteHex), Some(Alice)}

Transactions ==
  {Transaction(s, r, a, sig) :
     s \in Senders, r \in Receivers, a \in Amounts, sig \in Signatures}

InitValid ==
  /\ Blank
  /\ difficulty = 0
  /\ arg \in Transactions
  /\ result = <<>>

\* result is Some(bool) once is_valid has returned
IsValidCall ==
  /\ result = <<>>
  /\ result' = <<IsValid(arg)>>
  /\ UNCHANGED <<main_pc, engine, new_block, writers, readers, pc, tx_arg, old,
                 accepted, arg>>

SpecValid == InitValid /\ [][IsValidCall]_vars

(***************************************************************************)
(* The server given requests whose receiver and amount concatenate to the  *)
(* same text: receiver "x1" with amount 2 and receiver "x" with amount 12  *)
(* (an f64 holding a whole number prints without a fraction).              *)
(***************************************************************************)
\* signed by Alice's key
TxLong == TxSign(Transaction(Alice, <<"x","1">>, 2, None), 1)
\* TxLong's signature on the other split of "x12"
TxShort == [TxLong EXCEPT !.receiver = <<"x">>, !.amount = 12]
\* TxLong's signature on a text that differs: "x2"
TxOther == [TxLong EXCEPT !.receiver = <<"x">>]

CollidingInputs == {TxLong, TxShort, TxOther}

NextCollide ==
  \/ \E now \in Times : New(now)
  \/ GenesisMinePanic
  \/ GenesisMineStep
  \/ NewDone
  \/ \E p \in Procs : GetBlocksLock(p)
  \/ \E p \in Procs : GetBlocksReturn(p)
  \/ \E p \in Procs, tx \in CollidingInputs : AddLock(p, tx)
  \/ \E p \in Procs : AddTransaction(p)
  \/ \E p \in Procs : MineLock(p)
  \/ \E p \in Procs : MineEmpty(p)
  \/ \E p \in Procs, now \in Times : MineNewBlock(p, now)
  \/ \E p \in Procs : MineStep(p)
  \/ \E p \in Procs : MinePush(p)
  \/ \E p \in Procs : MineClear(p)
  \/ \E p \in Procs : Respond(p)

SpecCollide == Init /\ [][NextCollide]_vars

(***************************************************************************)
(* Block::mine applied on its own, on thread main, to a block as           *)
(* Block::new returns it.  The thread keeps running while the loop has a   *)
(* step to take.                                                           *)
(***************************************************************************)
MineInputs ==
  {BlockNew(i, txs, prev, now) :
     i \in {0, 1}, txs \in TxLists(1), prev \in {<<"0">>, Alice}, now \in Times}

\* main is at the call of mine on the block `arg`
InitMine ==
  /\ main_pc = "seal"
  /\ difficulty \in Difficulties
  /\ arg \in MineInputs
  /\ new_block = [t \in {Main} \cup Procs |-> IF t = Main THEN arg ELSE NoBlock]
  /\ chain = <<>>
  /\ pending_transactions = <<>>
  /\ writers = {}
  /\ readers = {}
  /\ pc = [p \in Procs |-> "idle"]
  /\ tx_arg = [p \in Procs |-> NoTx]
  /\ old = [p \in Procs |-> NoSnapshot]
  /\ accepted = <<>>
  /\ result = <<>>

\* the loop of Block::mine ends and the call returns
MineReturn ==
  /\ main_pc = "seal"
  /\ SliceInRange(new_block[Main], difficulty)
  /\ MeetsTarget(new_block[Main], difficulty)
  /\ main_pc' = "mined"
  /\ UNCHANGED <<applied, engine, new_block, writers, readers, pc, tx_arg, old,
                 accepted>>

NextMine ==
  \/ GenesisMinePanic
  \/ GenesisMineStep
  \/ MineReturn

SpecMine == InitMine /\ [][NextMine]_vars /\ WF_vars(NextMine)

(***************************************************************************)
(* Properties.                                                             *)
(***************************************************************************)
Constructed == main_pc = "serving"

\* the transactions of the mined blocks, in chain order (genesis left out)
RECURSIVE ChainedFrom(_)
ChainedFrom(i) ==
  IF i > Len(chain) THEN <<>>
  ELSE chain[i].transactions \o ChainedFrom(i + 1)

Count(tx, txs) == Cardinality({i \in 1..Len(txs) : txs[i] = tx})

\* C1: the blocks are linked: the genesis block has index 0 and previous_hash
\* "0", and every later block has its position as index and the hash of the
\* block before it as previous_hash.
C1_ChainLinked ==
  Constructed =>
    /\ chain[1].header.index = 0
    /\ chain[1].header.previous_hash = <<"0">>
    /\ \A i \in 2..Len(chain) :
         /\ chain[i].header.previous_hash = chain[i - 1].hash
         /\ chain[i].header.index = i - 1

\* three blocks, mined after a rejected transaction and an empty-mempool mine
C1_Witness ==
  /\ Constructed
  /\ Len(chain) = 3
  /\ chain[3].header.previous_hash # chain[1].hash

\* C2: every block of the chain has a hash that starts with `difficulty`
\* characters '0' and that is the hash of its own header.
C2_Sealed ==
  \A i \in 1..Len(chain) :
    /\ difficulty <= HashHexLen
    /\ \A k \in 1..difficulty : chain[i].hash[k] = "0"
    /\ chain[i].hash = HeaderCalculateHash(chain[i].header)

\* a chain at difficulty 1 with a block that took several nonces
C2_Witness ==
  /\ difficulty = 1
  /\ Len(chain) >= 2
  /\ \E i \in 1..Len(chain) : chain[i].header.nonce > 1

\* C3: a mine call entered with a non-empty mempool does not return Err, and
\* when it returns Ok the chain is the old chain plus one block that holds the
\* old mempool in its order, has the old chain length as index and the old
\* last block's hash as previous_hash, and the mempool is empty.
C3_MineAppends ==
  \A p \in Procs :
    /\ (pc[p] = "mine_err" => old[p].pending_transactions = <<>>)
    /\ (pc[p] = "mine_ok" /\ old[p].pending_transactions # <<>>) =>
         /\ Len(chain) = Len(old[p].chain) + 1
         /\ SubSeq(chain, 1, Len(chain) - 1) = old[p].chain
         /\ chain[Len(chain)].transactions = old[p].pending_transactions
         /\ chain[Len(chain)].header.index = Len(old[p].chain)
         /\ chain[Len(chain)].header.previous_hash
              = old[p].chain[Len(old[p].chain)].hash
         /\ pending_transactions = <<>>

\* a mine call returns Ok for a mempool of two different transactions
C3_Witness ==
  \E p \in Procs :
    /\ pc[p] = "mine_ok"
    /\ Len(old[p].pending_transactions) = 2
    /\ old[p].pending_transactions[1] # old[p].pending_transactions[2]

\* the positions inside an engine method
MidCall == {"add", "mine", "seal", "clear"}

\* C4: no accepted transaction is lost or duplicated: outside the window of a
\* mine call between its push and its clear, every transaction is as often in
\* the mempool plus the mined blocks as add_transaction returned Ok for it.
C4_NoLossNoDuplicate ==
  (Constructed /\ \A p \in Procs : pc[p] # "clear") =>
    \A tx \in TxInputs :
      Count(tx, accepted)
        = Count(tx, pending_transactions) + Count(tx, ChainedFrom(2))

\* the same transaction accepted twice, once mined and once pending, while
\* another handler has been through a seal
C4_Witness ==
  /\ Count(TxA, accepted) = 2
  /\ Count(TxA, pending_transactions) = 1
  /\ Count(TxA, ChainedFrom(2)) = 1
  /\ \E p \in Procs : pc[p] = "add_ok"

\* C5: the engine methods are critical sections: at most one handler holds
\* the write guard, none holds a read guard meanwhile, a handler is inside an
\* engine method only with the write guard, and while one is inside, every
\* other handler is outside the lock, so none sees the state between a push
\* and its clear or a block that is not sealed.
C5_CriticalSections ==
  /\ Cardinality(writers) <= 1
  /\ writers # {} => readers = {}
  /\ \A p \in Procs :
       /\ pc[p] \in MidCall \cup Returned <=> p \in writers
       /\ pc[p] = "blocks" <=> p \in readers
       /\ pc[p] \in MidCall => \A q \in Procs \ {p} : pc[q] = "idle"
  /\ readers # {} =>
       \A i \in 1..Len(chain) : \A k \in 1..difficulty : chain[i].hash[k] = "0"

\* a handler is between push and clear while the other has a request to make
C5_Witness ==
  \E p \in Procs :
    /\ pc[p] = "clear"
    /\ writers = {p}
    /\ Len(chain) = 3

\* every transaction of every block of the chain
InChain(tx) ==
  \E i \in 1..Len(chain) :
    \E k \in 1..Len(chain[i].transactions) : chain[i].transactions[k] = tx

InMempool(tx) ==
  \E k \in 1..Len(pending_transactions) : pending_transactions[k] = tx

\* C6: add_transaction of a transaction that is not valid returns Err and
\* leaves difficulty, chain and mempool as they were; the transaction is in
\* neither.
C6_InvalidRejected ==
  \A p \in Procs :
    (pc[p] \in {"add_ok", "add_err"} /\ ~IsValid(tx_arg[p])) =>
      /\ pc[p] = "add_err"
      /\ Snapshot = old[p]
      /\ ~InMempool(tx_arg[p])
      /\ ~InChain(tx_arg[p])

\* a forged transaction is rejected by an engine that holds transactions
C6_Witness ==
  \E p \in Procs :
    /\ pc[p] = "add_err"
    /\ tx_arg[p] = TxForged
    /\ pending_transactions # <<>>
    /\ Len(chain) >= 2

\* C7: a mine call on an empty mempool makes no block and returns Err with
\* the engine unchanged, and when the handler has answered, the lock is free
\* and the engine serves as before.
C7_EmptyMineRejected ==
  [][\A p \in Procs :
       /\ (pc[p] = "mine" /\ pending_transactions = <<>>) =>
            /\ pc'[p] \in {"mine", "mine_err"}
            /\ UNCHANGED <<engine, new_block>>
       /\ (pc[p] = "mine_err") =>
            /\ Snapshot = old[p]
            /\ UNCHANGED engine
            /\ main_pc' = "serving"
            /\ pc'[p] = "idle" => writers' = {} /\ readers' = {}]_vars

\* an empty-mempool mine is rejected by an engine that has mined before
C7_Witness ==
  \E p \in Procs :
    /\ pc[p] = "mine_err"
    /\ Len(chain) >= 2
    /\ accepted # <<>>

\* C8 as claimed: the root of a one-transaction list is the hash of the
\* leaf's hex hash concatenated with itself, and the root of the empty list
\* is "0".
C8_SingleLeafPaired ==
  result # <<>> =>
    /\ Len(arg) = 1 =>
         result = HexEncode(Sha256(HexEncode(TxCalculateHash(arg[1]))
                                   \o HexEncode(TxCalculateHash(arg[1]))))
    /\ Len(arg) = 0 => result = <<"0">>

\* C8 as the code has it: the root of a one-transaction list is the hex hash
\* of that transaction itself, and the root of the empty list is "0".
C8_SingleLeafBare ==
  result # <<>> =>
    /\ Len(arg) = 1 => result = HexEncode(TxCalculateHash(arg[1]))
    /\ Len(arg) = 0 => result = <<"0">>

\* the root of a one-transaction list has been computed
C8_Witness ==
  /\ result # <<>>
  /\ Len(arg) = 1
  /\ arg[1] = TxA

\* C9 as claimed: construction with a difficulty above the hash length does
\* not panic in the sealing loop.
C9_NoPanic ==
  difficulty > HashHexLen => main_pc # "panicked"

\* C10 as claimed: the genesis transaction is the only one with sender
\* "System" in the chain or the mempool.
C10_SystemOnlyGenesis ==
  Constructed =>
    /\ chain[1].transactions = <<GenesisTx>>
    /\ \A k \in 1..Len(pending_transactions) :
         pending_transactions[k].sender # System
    /\ \A i \in 2..Len(chain) :
         \A k \in 1..Len(chain[i].transactions) :
           chain[i].transactions[k].sender # System

\* C11: is_valid returns true for every transaction whose sender is "System",
\* whatever its signature (absent, present, malformed), receiver and amount.
C11_SystemAlwaysValid ==
  (result # <<>> /\ arg.sender = System) => result = <<TRUE>>

\* is_valid has returned true for a "System" transaction with a signature
\* that is not hex
C11_Witness ==
  /\ result = <<TRUE>>
  /\ arg.sender = System
  /\ arg.signature = Some(NotHex)

\* one of the checks of is_valid on a transaction of another sender fails
FailsACheck(tx) ==
  \/ tx.signature = None
  \/ ~HexDecodeOk(tx.sender)
  \/ Len(tx.sender) # 2 * PublicKeyLength
  \/ ~IsVerifyingKey(HexDecode(tx.sender))
  \/ ~HexDecodeOk(tx.signature[1])
  \/ Len(tx.signature[1]) # 2 * SignatureLength
  \/ ~Verify(HexDecode(tx.sender), TxCalculateHash(tx),
             HexDecode(tx.signature[1]))

\* C12: for a sender other than "System", is_valid returns false when the
\* signature is absent, the sender is not the hex of a 32-byte public key, the
\* signature is not the hex of 64 bytes, or the signature does not verify; and
\* what the call leaves for every input is a boolean (no step of it panics).
C12_FailsClosed ==
  result # <<>> =>
    /\ result \in {<<TRUE>>, <<FALSE>>}
    /\ (arg.sender # System /\ FailsACheck(arg)) => result = <<FALSE>>

\* is_valid has returned false for a well-formed signature made for another
\* amount
C12_Witness ==
  /\ result = <<FALSE>>
  /\ arg.sender = Alice
  /\ arg.receiver = Bob
  /\ arg.signature = TxA.signature
  /\ arg.amount = TxForged.amount

\* C13: the chain is append-only and, once the engine is constructed, never
\* empty: in every step the chain before is a prefix of the chain after (no
\* block is removed, reordered or modified, the genesis block included).
C13_AppendOnly ==
  /\ [](Constructed => Len(chain) >= 1)
  /\ [][/\ Len(chain') >= Len(chain)
        /\ SubSeq(chain', 1, Len(chain)) = chain]_vars

\* a mine call has returned Ok on a chain that two blocks were appended to
C13_Witness ==
  /\ Constructed
  /\ Len(chain) = 3
  /\ \E p \in Procs : pc[p] = "mine_ok"

\* C14: a successful add_transaction appends the transaction at the tail of
\* the mempool and leaves the chain as it was, and no step of any operation
\* changes difficulty.
C14_AddAppendsTail ==
  /\ [](\A p \in Procs :
          pc[p] = "add_ok" =>
            /\ pending_transactions
                 = Append(old[p].pending_transactions, tx_arg[p])
            /\ chain = old[p].chain
            /\ difficulty = old[p].difficulty)
  /\ [][difficulty' = difficulty]_vars

\* add_transaction has returned Ok on a mempool that held another transaction
C14_Witness ==
  \E p \in Procs :
    /\ pc[p] = "add_ok"
    /\ old[p].pending_transactions # <<>>
    /\ old[p].pending_transactions[1] # tx_arg[p]

\* C15: with difficulty 0 the sealing loop increments no nonce: every block
\* being sealed and every block of the chain has nonce 0, and the hash of a
\* chained block is the hash of its header with that nonce, as Block::new
\* computed it.
C15_ZeroDifficultyNoNonce ==
  [](difficulty = 0 =>
       /\ \A t \in {Main} \cup Procs : new_block[t].header.nonce = 0
       /\ \A i \in 1..Len(chain) :
            /\ chain[i].header.nonce = 0
            /\ chain[i].hash
                 = HeaderCalculateHash([chain[i].header EXCEPT !.nonce = 0]))

\* a chain of three blocks at difficulty 0
C15_Witness ==
  /\ difficulty = 0
  /\ Len(chain) = 3
  /\ pending_transactions = <<>>

\* the block with its nonce set to n and its hash recomputed
AtNonce(block, n) ==
  LET header == [block.header EXCEPT !.nonce = n]
  IN [block EXCEPT !.header = header, !.hash = HeaderCalculateHash(header)]

\* nonce n gives the block a hash with d leading '0' characters
Qualifies(block, n, d) ==
  /\ SliceInRange(block, d)
  /\ MeetsTarget(AtNonce(block, n), d)

\* the nonces up to MaxNonce that qualify, for every block and difficulty
\* mine is applied to
QualifyingNonces ==
  [block \in MineInputs |->
     [d \in Difficulties |-> {n \in 0..MaxNonce : Qualifies(block, n, d)}]]

\* C16: Block::mine starts at nonce 0 and every iteration adds one to the
\* nonce and only recomputes the hash; it returns if and only if some nonce
\* (up to MaxNonce) gives a hash with `difficulty` leading '0' characters, and
\* then the nonce is the smallest such and the other header fields and the
\* transactions are those of the block it was called on.
C16_MineSmallestNonce ==
  /\ arg.header.nonce = 0
  /\ [][new_block'[Main] # new_block[Main] =>
         new_block'[Main]
           = AtNonce(new_block[Main], new_block[Main].header.nonce + 1)]_vars
  /\ [](main_pc = "mined" =>
          /\ Qualifies(arg, new_block[Main].header.nonce, difficulty)
          /\ \A n \in 0..(new_block[Main].header.nonce - 1) :
               ~Qualifies(arg, n, difficulty)
          /\ new_block[Main] = AtNonce(arg, new_block[Main].header.nonce))
  /\ [](main_pc = "mined" => QualifyingNonces[arg][difficulty] # {})
  /\ (QualifyingNonces[arg][difficulty] # {}) ~> (main_pc = "mined")

\* mine has returned at difficulty 1 after more than three iterations
C16_Witness ==
  /\ main_pc = "mined"
  /\ difficulty = 1
  /\ new_block[Main].header.nonce > 3
  /\ arg.header.nonce = 0

\* the hex hash of a transaction, a leaf of the tree
Leaf(tx) == HexEncode(TxCalculateHash(tx))

\* the hex hash of two nodes concatenated
Pair(left, right) == HexEncode(Sha256(left \o right))

\* C17: an odd level has its last node duplicated before adjacent nodes are
\* paired left to right: the root of three leaves a, b, c is
\* H(H(a || b) || H(c || c)), the root of two is H(a || b), the root of four is
\* H(H(a || b) || H(c || d)); the root is this function of the leaf hashes in
\* their order.
C17_OddLevelDuplicatesLast ==
  result # <<>> =>
    /\ Len(arg) = 2 => result = Pair(Leaf(arg[1]), Leaf(arg[2]))
    /\ Len(arg) = 3 =>
         result = Pair(Pair(Leaf(arg[1]), Leaf(arg[2])),
                       Pair(Leaf(arg[3]), Leaf(arg[3])))
    /\ Len(arg) = 4 =>
         result = Pair(Pair(Leaf(arg[1]), Leaf(arg[2])),
                       Pair(Leaf(arg[3]), Leaf(arg[4])))

\* the root of three different transactions has been computed
C17_Witness ==
  /\ result # <<>>
  /\ Len(arg) = 3
  /\ arg[1] = TxA
  /\ arg[2] = TxB
  /\ arg[3] = TxSystem

\* the text calculate_hash hashes after the sender
ReceiverAmount(tx) == tx.receiver \o Display(tx.amount)

\* the hash of every colliding input, and those of them that pass is_valid
HashOfInput == [tx \in CollidingInputs |-> TxCalculateHash(tx)]
ValidCollidingInputs == {tx \in CollidingInputs : IsValid(tx)}

\* C18: two transactions with the same sender whose receiver and amount
\* concatenate to the same text have the same hash, so with the same
\* signature add_transaction accepts both or neither; the transaction with
\* receiver "x" and amount 12 is accepted on the signature made for receiver
\* "x1" and amount 2.
C18_ConcatenationCollides ==
  \A p \in Procs :
    pc[p] \in {"add_ok", "add_err"} =>
      /\ tx_arg[p] \in {TxLong, TxShort} => pc[p] = "add_ok"
      /\ \A tx \in CollidingInputs :
           (/\ tx.sender = tx_arg[p].sender
            /\ ReceiverAmount(tx) = ReceiverAmount(tx_arg[p])) =>
             /\ HashOfInput[tx] = HashOfInput[tx_arg[p]]
             /\ tx.signature = tx_arg[p].signature =>
                  (pc[p] = "add_ok" <=> tx \in ValidCollidingInputs)

\* the transaction with the other split is accepted after the signed one was
\* mined
C18_Witness ==
  \E p \in Procs :
    /\ pc[p] = "add_ok"
    /\ tx_arg[p] = TxShort
    /\ TxShort # TxLong
    /\ InChain(TxLong)

\* C19: the transactions of the mined blocks in chain order, followed by the
\* mempool, are the transactions add_transaction accepted, in the order it
\* accepted them (in every state but the one inside a mine call between its
\* push and its clear, which holds the write lock).
C19_GlobalFifo ==
  []((Constructed /\ \A p \in Procs : pc[p] # "clear") =>
       ChainedFrom(2) \o pending_transactions = accepted)

\* two different transactions were accepted; the first is mined, the second
\* is in the mempool
C19_Witness ==
  /\ Len(accepted) = 2
  /\ accepted[1] # accepted[2]
  /\ Len(chain) = 2
  /\ pending_transactions = <<accepted[2]>>

\* the transactions of the inputs and of the genesis block that pass is_valid
ValidTransactions == {tx \in TxInputs \cup {GenesisTx} : IsValid(tx)}

\* C20: every transaction in the mempool and in every block of the chain
\* passes is_valid, and every block after the genesis block holds at least
\* one transaction and has a merkle_root other than "0".
C20_HeldTransactionsValid ==
  [](Constructed =>
       /\ \A k \in 1..Len(pending_transactions) :
            pending_transactions[k] \in ValidTransactions
       /\ \A i \in 1..Len(chain) :
            \A k \in 1..Len(chain[i].transactions) :
              chain[i].transactions[k] \in ValidTransactions
       /\ \A i \in 2..Len(chain) :
            /\ chain[i].transactions # <<>>
            /\ chain[i].header.merkle_root # <<"0">>)

\* a signed transaction is in a block and another is in the mempool, after a
\* forged one was submitted
C20_Witness ==
  /\ InChain(TxA)
  /\ InMempool(TxB)
  /\ \E p \in Procs : pc[p] = "add_err" /\ tx_arg[p] = TxForged

====
